---- MODULE Spec2Model ----
(***************************************************************************)
(* Model of services/cpp-drogon/main.cc: the Discord interactions webhook. *)
(* A request is verified (validateSignature), parsed, dispatched on its    *)
(* type (handleInteraction) and, for an application command, a detached    *)
(* thread publishes the sanitized interaction (publishToPubSub).          *)
(***************************************************************************)
EXTENDS Integers, Sequences, FiniteSets, TLC

(***************************************************************************)
(* Bounds of the model.                                                    *)
(***************************************************************************)
\* number of requests the server receives in one behaviour
MaxReq == 2

(***************************************************************************)
(* Program constants.                                                      *)
(***************************************************************************)
INTERACTION_TYPE_PING == 1
INTERACTION_TYPE_APPLICATION_COMMAND == 2
RESPONSE_TYPE_PONG == 1
RESPONSE_TYPE_DEFERRED_CHANNEL_MESSAGE == 5
\* libsodium: bytes of a detached Ed25519 signature, bytes of a public key
crypto_sign_BYTES == 64
crypto_sign_PUBLICKEYBYTES == 32
\* the freshness window of validateSignature, in seconds
FreshnessWindow == 5

(***************************************************************************)
(* Json::Value.  A value is a record [kind, val]; an object's val is a     *)
(* function from its member names to values.                               *)
(***************************************************************************)
\* kind "int" is an integral number within the range of int; "bigint" stands
\* for an integral number beyond it (val is its value in units of 2^32)
JNull == [kind |-> "null", val |-> 0]
JInt(n) == [kind |-> "int", val |-> n]
JBigInt(n) == [kind |-> "bigint", val |-> n]
JReal(x) == [kind |-> "real", val |-> x]
JBool(b) == [kind |-> "bool", val |-> b]
JStr(s) == [kind |-> "string", val |-> s]
JArr(a) == [kind |-> "array", val |-> a]
JObj(f) == [kind |-> "object", val |-> f]
EmptyObj == JObj(<<>>)

\* Json::Value::isObject
isObject(v) == v.kind = "object"

\* Json::Value::isInt: an integral number that fits an int
isInt(v) == v.kind = "int"

\* Json::Value::isMember is defined on objects and on null only; on any
\* other kind it throws Json::LogicError
isMemberThrows(v) == v.kind \notin {"object", "null"}
isMember(v, key) == v.kind = "object" /\ key \in DOMAIN v.val

\* Json::Value::operator[](key) const: the member, or null when absent
Get(v, key) == IF isMember(v, key) THEN v.val[key] ELSE JNull

\* Json::Value::operator[](key) = x : a null value becomes an object
\* (w is the value assigned to, taken once)
JsonSet(v, key, x) ==
    CHOOSE object \in {JObj((key :> x) @@ (IF w.kind = "null" THEN <<>> ELSE w.val)) :
                          w \in {v}} : TRUE

\* Json::Value::asString throws Json::LogicError on arrays and objects
asStringThrows(v) == v.kind \in {"array", "object"}
asString(v) ==
    CASE v.kind = "string" -> v.val
      [] v.kind = "null" -> ""
      [] v.kind = "bool" -> IF v.val THEN "true" ELSE "false"
      [] v.kind = "int" -> ToString(v.val)
      [] OTHER -> "?"

(***************************************************************************)
(* sanitizeInteraction: copy the safe fields only, in the order of the     *)
(* code; the result starts as a default (null) Json::Value.                *)
(***************************************************************************)
SafeFields == <<"type", "id", "application_id", "data", "guild_id",
                "channel_id", "member", "user", "locale", "guild_locale">>

RECURSIVE CopySafeFields(_, _, _, _)
CopySafeFields(fields, interaction, sanitized, i) ==
    IF i > Len(fields)
    THEN sanitized
    ELSE CopySafeFields(fields, interaction,
             IF isMember(interaction, fields[i])
             THEN JsonSet(sanitized, fields[i], Get(interaction, fields[i]))
             ELSE sanitized,
             i + 1)

\* mutant: the token is copied with the safe fields
sanitizeInteraction_CopiesToken(interaction) ==
    CopySafeFields(SafeFields \o <<"token">>, interaction, JNull, 1)

\* mutant: the last safe field is not copied
sanitizeInteraction_DropsGuildLocale(interaction) ==
    CopySafeFields(SubSeq(SafeFields, 1, Len(SafeFields) - 1), interaction, JNull, 1)

sanitizeInteraction(interaction) ==
    CopySafeFields(SafeFields, interaction, JNull, 1)

(***************************************************************************)
(* Strings are sequences of one-character strings.  int64_t is modelled    *)
(* with Int64Bits bits, so that the range of std::stoll and the overflow   *)
(* of the freshness subtraction are within reach of the model.             *)
(***************************************************************************)
Int64Bits == 8
INT64_MAX == 2 ^ (Int64Bits - 1) - 1
INT64_MIN == -(2 ^ (Int64Bits - 1))
INT_MAX == 2147483647

DecDigits == <<"0", "1", "2", "3", "4", "5", "6", "7", "8", "9">>
HexDigits == DecDigits \o <<"a", "b", "c", "d", "e", "f">>

RECURSIVE IndexOf(_, _, _)
IndexOf(seq, x, i) ==
    IF i > Len(seq) THEN 0
    ELSE IF seq[i] = x THEN i ELSE IndexOf(seq, x, i + 1)

HexValue == [c \in {HexDigits[i] : i \in 1..16} |-> IndexOf(HexDigits, c, 1) - 1] @@ <<>>

\* the value of character c as a digit in the base, or -1
DigitVal(c, base) ==
    IF c \in DOMAIN HexValue /\ HexValue[c] < base THEN HexValue[c] ELSE -1

RECURSIVE SkipSpaces(_)
SkipSpaces(s) ==
    IF s # <<>> /\ Head(s) = " " THEN SkipSpaces(Tail(s)) ELSE s

\* the digits strtol consumes: their number, their value, and whether the
\* value went above limit
RECURSIVE Accumulate(_, _, _, _, _, _)
Accumulate(s, base, acc, n, over, limit) ==
    IF s = <<>> \/ DigitVal(Head(s), base) < 0
    THEN [value |-> acc, digits |-> n, over |-> over]
    ELSE LET d == DigitVal(Head(s), base)
         IN IF over \/ acc > (limit - d) \div base
            THEN Accumulate(Tail(s), base, 0, n + 1, TRUE, limit)
            ELSE Accumulate(Tail(s), base, acc * base + d, n + 1, FALSE, limit)

\* std::stoi / std::stoll (pos == nullptr): leading whitespace is skipped, a
\* sign is taken, base 16 takes a 0x prefix, then the longest run of digits
\* is converted and whatever follows is ignored.  No digit at all throws
\* std::invalid_argument, a value out of [lo, hi] throws std::out_of_range.
StrToInt(s, base, lo, hi) ==
    LET s1 == SkipSpaces(s)
        signed == s1 # <<>> /\ Head(s1) \in {"+", "-"}
        neg == s1 # <<>> /\ Head(s1) = "-"
        s2 == IF signed THEN Tail(s1) ELSE s1
        prefixed == /\ base = 16
                    /\ Len(s2) >= 3
                    /\ s2[1] = "0"
                    /\ s2[2] = "x"
                    /\ DigitVal(s2[3], 16) >= 0
        s3 == IF prefixed THEN Tail(Tail(s2)) ELSE s2
        converted == {Accumulate(digits, base, 0, 0, FALSE, IF neg THEN -lo ELSE hi) :
                         digits \in {s3}}
    IN CHOOSE result \in {IF r.digits = 0 \/ r.over
                          THEN [ok |-> FALSE, value |-> 0]
                          ELSE [ok |-> TRUE, value |-> IF neg THEN -r.value ELSE r.value] :
                             r \in converted} : TRUE

stoll(s) == StrToInt(s, 10, INT64_MIN, INT64_MAX)
\* (the model's int stops one short of INT_MIN)
stoi(s, base) == StrToInt(s, base, -INT_MAX, INT_MAX)

\* hex.substr(i, 2), i counted from 1
Substr2(hex, i) == SubSeq(hex, i, IF i + 1 <= Len(hex) THEN i + 1 ELSE Len(hex))

(***************************************************************************)
(* hexToBytes: every two characters go through std::stoi(.., 16) and the   *)
(* result is cast to unsigned char.  The result is [ok, bytes]; ok is      *)
(* FALSE when std::stoi throws.                                            *)
(***************************************************************************)
hexToBytes(hex) ==
    LET n == (Len(hex) + 1) \div 2
        parsed == [k \in 1..n |-> stoi(Substr2(hex, 2 * k - 1), 16)]
    IN IF \E k \in 1..n : ~parsed[k].ok
       THEN [ok |-> FALSE, bytes |-> <<>>]
       ELSE [ok |-> TRUE, bytes |-> [k \in 1..n |-> parsed[k].value % 256]]

(***************************************************************************)
(* Request bodies: the bytes received and what Json::parseFromStream makes *)
(* of them (ok = FALSE: a syntax error).                                   *)
(***************************************************************************)
Body(text, ok, root) == [bytes |-> <<text>>, ok |-> ok, root |-> root]

FullCommand ==
    JObj([type |-> JInt(2), id |-> JStr("i1"), application_id |-> JStr("a1"),
          token |-> JStr("secret"), data |-> JObj([name |-> JStr("hello")]),
          guild_id |-> JStr("g1"), channel_id |-> JStr("c1"),
          member |-> JObj([nick |-> JStr("n")]), user |-> JObj([id |-> JStr("u1")]),
          locale |-> JStr("en"), guild_locale |-> JStr("de"),
          extra |-> JStr("x")])

NotJsonBody == Body("not json", FALSE, JNull)
PingBody == Body("{type:1}", TRUE, JObj([type |-> JInt(1)]))
CommandBody == Body("{type:2,all,token,extra}", TRUE, FullCommand)
EmptyObjectBody == Body("{}", TRUE, EmptyObj)

Bodies == <<
    NotJsonBody,
    Body("null", TRUE, JNull),
    Body("[1]", TRUE, JArr(<<JInt(1)>>)),
    EmptyObjectBody,
    Body("{type:'1'}", TRUE, JObj([type |-> JStr("1")])),
    Body("{type:1.5}", TRUE, JObj([type |-> JReal(<<1, 5>>)])),
    Body("{type:4294967296}", TRUE, JObj([type |-> JBigInt(1)])),
    Body("{type:99}", TRUE, JObj([type |-> JInt(99)])),
    PingBody,
    Body("{type:1,id,token}", TRUE,
         JObj([type |-> JInt(1), id |-> JStr("i0"), token |-> JStr("secret")])),
    Body("{type:2}", TRUE, JObj([type |-> JInt(2)])),
    CommandBody,
    Body("{type:2,id:{}}", TRUE, JObj([type |-> JInt(2), id |-> EmptyObj])),
    Body("{type:2,data:'s'}", TRUE, JObj([type |-> JInt(2), data |-> JStr("s")])),
    Body("{type:2,data:{name:[]}}", TRUE,
         JObj([type |-> JInt(2), data |-> JObj([name |-> JArr(<<>>)])])),
    Body("{type:2,id:5,data:{},guild_id:null,token}", TRUE,
         JObj([type |-> JInt(2), id |-> JInt(5), data |-> EmptyObj,
               guild_id |-> JNull, token |-> JStr("secret")])) >>

BodySet == {Bodies[i] : i \in 1..Len(Bodies)}

\* Json::parseFromStream(builder, stream, &interaction, &errors)
parseFromStream(body) == [ok |-> body.ok, root |-> body.root]

(***************************************************************************)
(* The platform's signer and libsodium's crypto_sign_verify_detached.      *)
(* The model's signature scheme is ideal: the only signature that verifies *)
(* a message under the platform's key is the one the signer makes, and     *)
(* Sign is one-to-one on the model's messages.                             *)
(***************************************************************************)
\* the one-character strings and the body texts of the model
BodyTexts == [i \in 1..Len(Bodies) |-> Bodies[i].bytes[1]]
Alphabet == HexDigits \o <<" ", "+", "-", "x", "g", ":", "h", "t", "p">> \o BodyTexts

Code(c) == IndexOf(Alphabet, c, 1)

\* (the last byte of an Ed25519 signature is the top byte of the scalar S,
\* which is below the group order: its high four bits are zero)
Sign(message) ==
    [i \in 1..crypto_sign_BYTES |->
        IF i = crypto_sign_BYTES
        THEN (i * 13 + Len(message)) % 16
        ELSE IF i <= Len(message)
        THEN (Code(message[i]) * 7 + i + Len(message)) % 256
        ELSE (i * 13 + Len(message)) % 256]

ToHex(bytes) ==
    [i \in 1..(2 * Len(bytes)) |->
        IF i % 2 = 1
        THEN HexDigits[(bytes[(i + 1) \div 2] \div 16) + 1]
        ELSE HexDigits[(bytes[i \div 2] % 16) + 1]]

PlatformPublicKey == [i \in 1..crypto_sign_PUBLICKEYBYTES |-> 170]

\* 0 when the signature verifies, -1 otherwise
crypto_sign_verify_detached(sig, message, pk) ==
    IF pk = PlatformPublicKey /\ sig = Sign(message) THEN 0 ELSE -1

(***************************************************************************)
(* Requests.  The clock reads NowValues; a signed request carries the      *)
(* platform's signature of timestamp + body.                               *)
(***************************************************************************)
NowValues == {100}
FreshTimestamp == <<"9", "8">>
StaleTimestamp == <<"9", "4">>

Request(signature, timestamp, body) ==
    [signature |-> signature, timestamp |-> timestamp, body |-> body]

SignedRequest(timestamp, body) ==
    Request(ToHex(Sign(timestamp \o body.bytes)), timestamp, body)

\* bodies the rejected requests are built from: not JSON, a Ping, a command
ProbeBodies == {NotJsonBody, PingBody, CommandBody}

Requests ==
    {SignedRequest(FreshTimestamp, b) : b \in BodySet}
    \cup {SignedRequest(StaleTimestamp, b) : b \in ProbeBodies}
    \cup {Request(<<>>, FreshTimestamp, b) : b \in ProbeBodies}
    \cup {Request(ToHex(Sign(FreshTimestamp \o EmptyObjectBody.bytes)),
                   FreshTimestamp, b) : b \in ProbeBodies}

\* hexToBytes of the signature headers the model's requests carry, computed
\* once; DecodeHeader(hex) is hexToBytes(hex)
KnownHeaders == {rq.signature : rq \in Requests}
HeaderBytes == [h \in KnownHeaders |-> hexToBytes(h)] @@ <<>>
DecodeHeader(hex) ==
    IF hex \in DOMAIN HeaderBytes THEN HeaderBytes[hex] ELSE hexToBytes(hex)

(***************************************************************************)
(* The state of the process.                                               *)
(***************************************************************************)
VARIABLES
    env,                    \* the environment main reads
    proc,                   \* "starting", "running", "exited", "aborted"
    g_public_key,           \* global configuration
    g_pubsub_topic,
    g_project_id,
    g_pubsub_emulator_host,
    nreq,                   \* requests received so far
    req,                    \* req[r]: the request handler r was called with
    pc,                     \* pc[r]: "idle", "respond" (thread spawned), "done"
    verified,               \* verified[r]: what validateSignature returned
    responses,              \* responses[r]: the responses given to callback
    task,                   \* task[r]: the detached publish thread of r
    time_t_now,             \* time_t_now[r]: the clock reading of thread r
    gmtime_tm               \* the static struct tm std::gmtime fills

config == <<g_public_key, g_pubsub_topic, g_project_id, g_pubsub_emulator_host>>
clock == <<time_t_now, gmtime_tm>>
vars == <<env, proc, g_public_key, g_pubsub_topic, g_project_id,
          g_pubsub_emulator_host, nreq, req, pc, verified, responses, task,
          time_t_now, gmtime_tm>>

Reqs == 1..MaxReq

(***************************************************************************)
(* validateSignature.  The result is the set of values the call can        *)
(* return: one value, except that the subtraction seconds - ts is signed   *)
(* 64-bit arithmetic, whose overflow is undefined.                         *)
(***************************************************************************)
\* mutant: a timestamp out of the window on either side is stale
StaleOutcomes_EitherSide(seconds, ts) ==
    {seconds - ts > FreshnessWindow \/ ts - seconds > FreshnessWindow}

\* the values of (seconds - ts > 5)
StaleOutcomes(seconds, ts) ==
    IF seconds - ts > INT64_MAX \/ seconds - ts < INT64_MIN
    THEN BOOLEAN
    ELSE {seconds - ts > FreshnessWindow}

\* mutant: a signature of the right length is taken as valid
VerifyDecoded_LengthOnly(signature_hex, timestamp, body) ==
    LET signature == DecodeHeader(signature_hex)
    IN signature.ok /\ Len(signature.bytes) = crypto_sign_BYTES

\* lines 108-129: decode the signature and verify timestamp + body
VerifyDecoded(signature_hex, timestamp, body) ==
    LET signature == DecodeHeader(signature_hex)
    IN IF ~signature.ok THEN FALSE
       ELSE IF Len(signature.bytes) # crypto_sign_BYTES THEN FALSE
       ELSE crypto_sign_verify_detached(signature.bytes, timestamp \o body,
                                        g_public_key) = 0

validateSignature(signature_hex, timestamp, body, seconds) ==
    IF signature_hex = <<>> \/ timestamp = <<>> \/ g_public_key = <<>>
    THEN {FALSE}
    ELSE LET ts == stoll(timestamp)
         IN IF ~ts.ok THEN {FALSE}
            ELSE {IF stale THEN FALSE
                  ELSE VerifyDecoded(signature_hex, timestamp, body) :
                     stale \in StaleOutcomes(seconds, ts.value)}

(***************************************************************************)
(* Responses.                                                              *)
(***************************************************************************)
\* HttpResponse::newHttpJsonResponse: status 200 unless set otherwise
newHttpJsonResponse(json) == [status |-> 200, body |-> json]

errorResponse(status, error) ==
    [newHttpJsonResponse(JObj([error |-> JStr(error)])) EXCEPT !.status = status]

handlePing == newHttpJsonResponse(JObj([type |-> JInt(RESPONSE_TYPE_PONG)]))

\* lines 269-272 of handleApplicationCommand: the deferred response
DeferredResponse ==
    newHttpJsonResponse(JObj([type |-> JInt(RESPONSE_TYPE_DEFERRED_CHANNEL_MESSAGE)]))

(***************************************************************************)
(* publishToPubSub, up to the call of sendRequest.                         *)
(***************************************************************************)
\* Json::Value::asInt throws on strings, arrays, objects and numbers out of
\* the range of int
asIntThrows(v) == v.kind \in {"string", "array", "object", "bigint", "real"}

\* Json::writeString(writer, value) followed by base64Encode
EncodeData(sanitized) == <<"base64", <<"json", sanitized>>>>

\* std::put_time(std::gmtime(&time_t_now), "%Y-%m-%dT%H:%M:%SZ")
FormatTime(t) == <<"utc", t>>

StringAttributes == <<<<"id", "interaction_id">>,
                      <<"application_id", "application_id">>,
                      <<"guild_id", "guild_id">>,
                      <<"channel_id", "channel_id">>>>

\* an exception leaves lines 184-202
AttributesThrow(sanitized) ==
    \/ \E i \in 1..Len(StringAttributes) :
          /\ isMember(sanitized, StringAttributes[i][1])
          /\ asStringThrows(Get(sanitized, StringAttributes[i][1]))
    \/ isMember(sanitized, "type") /\ asIntThrows(Get(sanitized, "type"))
    \/ /\ isMember(sanitized, "data")
       /\ \/ isMemberThrows(Get(sanitized, "data"))
          \/ /\ isMember(Get(sanitized, "data"), "name")
             /\ asStringThrows(Get(Get(sanitized, "data"), "name"))

RECURSIVE CopyStringAttributes(_, _, _)
CopyStringAttributes(sanitized, attrs, i) ==
    IF i > Len(StringAttributes)
    THEN attrs
    ELSE CopyStringAttributes(sanitized,
             IF isMember(sanitized, StringAttributes[i][1])
             THEN (StringAttributes[i][2] :>
                      asString(Get(sanitized, StringAttributes[i][1]))) @@ attrs
             ELSE attrs,
             i + 1)

\* lines 184-209: the attributes of the message
Attributes(sanitized, t) ==
    LET a1 == CopyStringAttributes(sanitized, <<>>, 1)
        a2 == IF isMember(sanitized, "type")
              THEN ("interaction_type" :> ToString(Get(sanitized, "type").val)) @@ a1
              ELSE a1
        a3 == IF isMember(sanitized, "data") /\ isMember(Get(sanitized, "data"), "name")
              THEN ("command_name" :> asString(Get(Get(sanitized, "data"), "name"))) @@ a2
              ELSE a2
    IN ("timestamp" :> FormatTime(t)) @@ a3

\* lines 218-225: std::stoi of what follows the first colon throws
PortThrows(host) ==
    LET colonPos == IndexOf(host, ":", 1)
    IN colonPos # 0 /\ ~stoi(SubSeq(host, colonPos + 1, Len(host)), 10).ok

\* mutant: the emulator host is not among the settings looked at
publishToPubSub_HostOptional(interaction, t) ==
    IF g_pubsub_topic = <<>> \/ g_project_id = <<>>
    THEN [kind |-> "noop", request |-> <<>>]
    ELSE [kind |-> "send",
          request |-> [host |-> g_pubsub_emulator_host,
                       project |-> g_project_id,
                       topic |-> g_pubsub_topic,
                       data |-> EncodeData(sanitizeInteraction(interaction)),
                       attributes |-> <<>>]]

\* What one call does before sendRequest: "noop" (configuration incomplete),
\* "throw" (an exception leaves the function) or "send" with the request
\* handed to the HTTP client.
publishToPubSub(interaction, t) ==
    IF g_pubsub_topic = <<>> \/ g_project_id = <<>> \/ g_pubsub_emulator_host = <<>>
    THEN [kind |-> "noop", request |-> <<>>]
    ELSE CHOOSE outcome \in
            {IF AttributesThrow(sanitized) \/ PortThrows(g_pubsub_emulator_host)
             THEN [kind |-> "throw", request |-> <<>>]
             ELSE [kind |-> "send",
                   request |-> [host |-> g_pubsub_emulator_host,
                                project |-> g_project_id,
                                topic |-> g_pubsub_topic,
                                data |-> EncodeData(sanitized),
                                attributes |-> Attributes(sanitized, t)]] :
                sanitized \in {sanitizeInteraction(interaction)}} : TRUE

\* what sendRequest(req, 5.0) returns: a result and, with Ok, a status
SendOutcomes == {[result |-> "Ok", status |-> 200],
                 [result |-> "Ok", status |-> 500],
                 [result |-> "NetworkFailure", status |-> 0],
                 [result |-> "Timeout", status |-> 0]}

\* lines 239-248: the line logged
LogLine(outcome) ==
    IF outcome.result = "Ok"
    THEN IF outcome.status = 200
         THEN "Published to Pub/Sub successfully"
         ELSE "Pub/Sub publish failed: HTTP"
    ELSE "Pub/Sub publish failed: connection error"

(***************************************************************************)
(* The environment of the process: std::getenv gives a string or nullptr.  *)
(***************************************************************************)
Unset == [set |-> FALSE, value |-> <<>>]
Set(value) == [set |-> TRUE, value |-> value]

Env(key, project, topic, host) ==
    [DISCORD_PUBLIC_KEY |-> key, GOOGLE_CLOUD_PROJECT |-> project,
     PUBSUB_TOPIC |-> topic, PUBSUB_EMULATOR_HOST |-> host]

PlatformKeyHex == ToHex(PlatformPublicKey)

Envs ==
    { Env(Set(PlatformKeyHex), Set(<<"p">>), Set(<<"t">>), Set(<<"h", ":", "8", "5">>)),
      Env(Set(PlatformKeyHex), Set(<<"p">>), Set(<<"t">>), Set(<<"h">>)),
      Env(Set(PlatformKeyHex), Set(<<"p">>), Set(<<"t">>), Set(<<"h", ":", "x">>)),
      Env(Set(PlatformKeyHex), Set(<<"p">>), Unset, Set(<<"h", ":", "8", "5">>)),
      Env(Set(<<"a", "a">>), Set(<<"p">>), Set(<<"t">>), Set(<<"h", ":", "8", "5">>)),
      Env(Unset, Set(<<"p">>), Set(<<"t">>), Set(<<"h", ":", "8", "5">>)) }

NoRequest == Request(<<>>, <<>>, Body("", FALSE, JNull))
NoTask == [state |-> "none", interaction |-> JNull, sent |-> <<>>, log |-> ""]

Init ==
    /\ env \in Envs
    /\ proc = "starting"
    /\ g_public_key = <<>>
    /\ g_pubsub_topic = <<>>
    /\ g_project_id = <<>>
    /\ g_pubsub_emulator_host = <<>>
    /\ nreq = 0
    /\ req = [r \in Reqs |-> NoRequest]
    /\ pc = [r \in Reqs |-> "idle"]
    /\ verified = [r \in Reqs |-> FALSE]
    /\ responses = [r \in Reqs |-> <<>>]
    /\ task = [r \in Reqs |-> NoTask]
    /\ time_t_now = [r \in Reqs |-> 0]
    /\ gmtime_tm = 0

(***************************************************************************)
(* main: load the configuration, then run the server or exit with 1.       *)
(***************************************************************************)
main ==
    /\ proc = "starting"
    /\ LET key == hexToBytes(env.DISCORD_PUBLIC_KEY.value)
           started == /\ env.DISCORD_PUBLIC_KEY.set
                      /\ key.ok
                      /\ Len(key.bytes) = crypto_sign_PUBLICKEYBYTES
       IN /\ g_public_key' = IF env.DISCORD_PUBLIC_KEY.set /\ key.ok
                             THEN key.bytes ELSE g_public_key
          /\ g_project_id' = IF started /\ env.GOOGLE_CLOUD_PROJECT.set
                             THEN env.GOOGLE_CLOUD_PROJECT.value ELSE g_project_id
          /\ g_pubsub_topic' = IF started /\ env.PUBSUB_TOPIC.set
                               THEN env.PUBSUB_TOPIC.value ELSE g_pubsub_topic
          /\ g_pubsub_emulator_host' = IF started /\ env.PUBSUB_EMULATOR_HOST.set
                                       THEN env.PUBSUB_EMULATOR_HOST.value
                                       ELSE g_pubsub_emulator_host
          /\ proc' = IF started THEN "running" ELSE "exited"
    /\ UNCHANGED <<env, nreq, req, pc, verified, responses, task, clock>>

(***************************************************************************)
(* handleInteraction.                                                      *)
(***************************************************************************)
\* mutant: a missing return, the callback runs a second time
callback_Twice(given, resp) == Append(Append(given, resp), resp)

\* callback(resp): one more response handed to the framework
callback(given, resp) == Append(given, resp)

\* mutant: the body is parsed before the signature is looked at
Dispatch_ParseBeforeSignature(valid, body) ==
    IF ~parseFromStream(body).ok \/ ~isObject(parseFromStream(body).root)
    THEN [spawn |-> FALSE, response |-> errorResponse(400, "invalid JSON")]
    ELSE IF ~valid
    THEN [spawn |-> FALSE, response |-> errorResponse(401, "invalid signature")]
    ELSE [spawn |-> FALSE, response |-> handlePing]

\* mutant: every request with a valid signature is published, whatever it is
Dispatch_PublishesAll(valid, body) ==
    IF ~valid
    THEN [spawn |-> FALSE, response |-> errorResponse(401, "invalid signature")]
    ELSE [spawn |-> TRUE, response |-> DeferredResponse]

\* lines 285-327 after validateSignature returned valid: the response, and
\* whether handleApplicationCommand is called (it spawns the thread before
\* its response exists)
Dispatch(valid, body) ==
    IF ~valid
    THEN [spawn |-> FALSE, response |-> errorResponse(401, "invalid signature")]
    ELSE LET parsed == parseFromStream(body)
             interaction == parsed.root
         IN IF ~parsed.ok
            THEN [spawn |-> FALSE, response |-> errorResponse(400, "invalid JSON")]
            ELSE IF ~isObject(interaction)
            THEN [spawn |-> FALSE, response |-> errorResponse(400, "invalid JSON")]
            ELSE IF ~isMember(interaction, "type") \/ ~isInt(Get(interaction, "type"))
            THEN [spawn |-> FALSE,
                  response |-> errorResponse(400, "unsupported interaction type")]
            ELSE CASE Get(interaction, "type").val = INTERACTION_TYPE_PING ->
                        [spawn |-> FALSE, response |-> handlePing]
                   [] Get(interaction, "type").val = INTERACTION_TYPE_APPLICATION_COMMAND ->
                        [spawn |-> TRUE, response |-> DeferredResponse]
                   [] OTHER ->
                        [spawn |-> FALSE,
                         response |-> errorResponse(400, "unsupported interaction type")]

\* mutant: no thread is started
SpawnedTask_NotStarted(interaction) ==
    [state |-> "none", interaction |-> JNull, sent |-> <<>>, log |-> ""]

\* std::thread([interaction]() { publishToPubSub(interaction); }).detach():
\* the thread owns a copy of the interaction
SpawnedTask(interaction) ==
    [state |-> "spawned", interaction |-> interaction, sent |-> <<>>, log |-> ""]

\* Request r, one of requests, arrives and handleInteraction runs: to its
\* end, or, for an application command, up to the spawn of the publish thread.
Receive(r, requests) ==
    /\ proc = "running"
    /\ r = nreq + 1
    /\ pc[r] = "idle"
    /\ \E request \in requests, seconds \in NowValues :
          \E valid \in validateSignature(request.signature, request.timestamp,
                                         request.body.bytes, seconds) :
             LET d == Dispatch(valid, request.body)
             IN /\ nreq' = r
                /\ req' = [req EXCEPT ![r] = request]
                /\ verified' = [verified EXCEPT ![r] = valid]
                /\ IF d.spawn
                   THEN /\ task' = [task EXCEPT ![r] =
                                       SpawnedTask(parseFromStream(request.body).root)]
                        /\ pc' = [pc EXCEPT ![r] = "respond"]
                        /\ UNCHANGED responses
                   ELSE /\ responses' = [responses EXCEPT ![r] = callback(@, d.response)]
                        /\ pc' = [pc EXCEPT ![r] = "done"]
                        /\ UNCHANGED task
    /\ UNCHANGED <<env, proc, config, clock>>

HandleInteraction(r) == Receive(r, Requests)

\* lines 269-272 and 322: handleApplicationCommand returns the deferred
\* response and handleInteraction hands it to callback
ApplicationCommandRespond(r) ==
    /\ proc = "running"
    /\ pc[r] = "respond"
    /\ responses' = [responses EXCEPT ![r] = callback(@, DeferredResponse)]
    /\ pc' = [pc EXCEPT ![r] = "done"]
    /\ UNCHANGED <<env, proc, config, nreq, req, verified, task, clock>>

(***************************************************************************)
(* The detached publish thread.                                            *)
(***************************************************************************)
\* the call gets as far as line 205: the configuration is complete and the
\* attributes of lines 185-202 do not throw
ReachesGmtime(interaction) ==
    /\ g_pubsub_topic # <<>> /\ g_project_id # <<>> /\ g_pubsub_emulator_host # <<>>
    /\ \A sanitized \in {sanitizeInteraction(interaction)} : ~AttributesThrow(sanitized)

\* publishToPubSub runs up to sendRequest, with nothing else running
\* between its std::gmtime and its std::put_time.  An exception that leaves
\* the thread function calls std::terminate: the process aborts.
PublishBegin(r) ==
    /\ proc = "running"
    /\ task[r].state = "spawned"
    /\ \E t \in NowValues :
          \E p \in {publishToPubSub(task[r].interaction, t)} :
             /\ CASE p.kind = "noop" ->
                       /\ task' = [task EXCEPT ![r].state = "ended"]
                       /\ UNCHANGED proc
                  [] p.kind = "throw" ->
                       /\ task' = [task EXCEPT ![r].state = "threw"]
                       /\ proc' = "aborted"
                  [] OTHER ->
                       /\ task' = [task EXCEPT ![r].state = "sending",
                                               ![r].sent = Append(@, p.request)]
                       /\ UNCHANGED proc
             /\ IF ReachesGmtime(task[r].interaction)
                THEN /\ time_t_now' = [time_t_now EXCEPT ![r] = t]
                     /\ gmtime_tm' = t
                ELSE UNCHANGED clock
    /\ UNCHANGED <<env, config, nreq, req, pc, verified, responses>>

\* mutant: the send has no timeout, a silent sink leaves the thread waiting
PublishComplete_NoTimeout(r) ==
    /\ proc = "running"
    /\ task[r].state = "sending"
    /\ \E outcome \in SendOutcomes :
          task' = [task EXCEPT ![r].state = IF outcome.result = "Timeout"
                                            THEN "waiting" ELSE "ended",
                               ![r].log = IF outcome.result = "Timeout"
                                          THEN @ ELSE LogLine(outcome)]
    /\ UNCHANGED <<env, proc, config, nreq, req, pc, verified, responses, clock>>

\* mutant: a failed send is tried again
PublishComplete_Retries(r) ==
    /\ proc = "running"
    /\ task[r].state = "sending"
    /\ \E outcome \in SendOutcomes :
          task' = [task EXCEPT ![r].state = IF outcome = [result |-> "Ok", status |-> 200]
                                            THEN "ended" ELSE "spawned",
                               ![r].log = LogLine(outcome)]
    /\ UNCHANGED <<env, proc, config, nreq, req, pc, verified, responses, clock>>

\* sendRequest returns (after at most its 5 s timeout); the outcome is
\* logged and the thread ends
PublishComplete(r) ==
    /\ proc = "running"
    /\ task[r].state = "sending"
    /\ \E outcome \in SendOutcomes :
          task' = [task EXCEPT ![r].state = "ended", ![r].log = LogLine(outcome)]
    /\ UNCHANGED <<env, proc, config, nreq, req, pc, verified, responses, clock>>

Next ==
    \/ main
    \/ \E r \in Reqs : HandleInteraction(r)
    \/ \E r \in Reqs : ApplicationCommandRespond(r)
    \/ \E r \in Reqs : PublishBegin(r)
    \/ \E r \in Reqs : PublishComplete(r)

Spec == Init /\ [][Next]_vars

(***************************************************************************)
(* The publish path on its own: handleApplicationCommand is called with    *)
(* every envelope over the field names below, in slot 1.                   *)
(***************************************************************************)
OptionalFields == {"id", "application_id", "data", "guild_id", "channel_id",
                   "member", "user", "locale", "guild_locale", "token", "extra"}

\* the value of a field: plain (variant 1) or of an awkward kind (variant 2)
FieldValue(f, variant) ==
    IF variant = 1
    THEN CASE f \in {"data"} -> JObj([name |-> JStr("hello")])
           [] f \in {"member", "user"} -> JObj([id |-> JStr("u1")])
           [] OTHER -> JStr(f)
    ELSE CASE f = "id" -> JInt(7)
           [] f = "application_id" -> JNull
           [] f = "data" -> EmptyObj
           [] f = "guild_id" -> JBool(TRUE)
           [] f = "channel_id" -> JArr(<<>>)
           [] f = "token" -> JObj([secret |-> JStr("s")])
           [] OTHER -> JArr(<<JStr(f)>>)

Envelope(fields, variant) ==
    JObj([f \in fields \cup {"type"} |->
             IF f = "type" THEN JInt(INTERACTION_TYPE_APPLICATION_COMMAND)
             ELSE FieldValue(f, variant)])

Envelopes == {Envelope(fields, variant) : fields \in SUBSET OptionalFields,
                                           variant \in {1, 2}}

\* handleApplicationCommand(interaction), lines 263-268: the thread is spawned
ApplicationCommand(r) ==
    /\ proc = "running"
    /\ r = 1
    /\ pc[r] = "idle"
    /\ \E interaction \in Envelopes :
          task' = [task EXCEPT ![r] = SpawnedTask(interaction)]
    /\ nreq' = r
    /\ verified' = [verified EXCEPT ![r] = TRUE]
    /\ pc' = [pc EXCEPT ![r] = "respond"]
    /\ UNCHANGED <<env, proc, config, req, responses, clock>>

NextPublish ==
    \/ main
    \/ ApplicationCommand(1)
    \/ ApplicationCommandRespond(1)
    \/ PublishBegin(1)
    \/ PublishComplete(1)

SpecPublish == Init /\ [][NextPublish]_vars

(***************************************************************************)
(* Properties.                                                             *)
(***************************************************************************)
\* what the request of handler r is, read off the request itself
RequestEnvelope(r) == req[r].body.root
IsJsonObject(r) == req[r].body.ok /\ req[r].body.root.kind = "object"
HasIntType(r) ==
    /\ IsJsonObject(r)
    /\ "type" \in DOMAIN req[r].body.root.val
    /\ req[r].body.root.val["type"].kind = "int"
TypeIs(r, n) == HasIntType(r) /\ req[r].body.root.val["type"].val = n

Answer(status, key, value) == [status |-> status, body |-> JObj(key :> value)]

\* the table of section 4.6, in the precedence signature > JSON > shape > type
ExpectedResponse(r) ==
    IF ~verified[r] THEN Answer(401, "error", JStr("invalid signature"))
    ELSE IF ~IsJsonObject(r) THEN Answer(400, "error", JStr("invalid JSON"))
    ELSE IF TypeIs(r, 1) THEN Answer(200, "type", JInt(1))
    ELSE IF TypeIs(r, 2) THEN Answer(200, "type", JInt(5))
    ELSE Answer(400, "error", JStr("unsupported interaction type"))

\* C1: the response of every finished POST request is the one the checks
\* give in the order signature, JSON syntax, object shape, type: 401 invalid
\* signature, 400 invalid JSON, 400 unsupported interaction type, 200 {type:1}
\* for type 1 and 200 {type:5} for type 2.
C1_ResponseByPrecedence ==
    \A r \in Reqs :
        pc[r] = "done" => responses[r] = <<ExpectedResponse(r)>>

\* a request with an invalid signature and a well-formed type 1 body got 401,
\* and another with a valid signature and a body that is no JSON got 400
C1_Witness ==
    \E r, q \in Reqs :
        /\ pc[r] = "done" /\ ~verified[r] /\ TypeIs(r, 1)
        /\ responses[r] = <<Answer(401, "error", JStr("invalid signature"))>>
        /\ pc[q] = "done" /\ verified[q] /\ ~req[q].body.ok
        /\ responses[q] = <<Answer(400, "error", JStr("invalid JSON"))>>

\* C2: the callback is invoked exactly once per request: not before the
\* handler has decided, once when it has finished, never twice.
C2_ExactlyOneResponse ==
    \A r \in Reqs :
        /\ Len(responses[r]) <= 1
        /\ pc[r] = "done" => Len(responses[r]) = 1
        /\ pc[r] = "idle" => Len(responses[r]) = 0

\* one request was rejected and one application command answered, once each
C2_Witness ==
    \E r, q \in Reqs :
        /\ pc[r] = "done" /\ responses[r][1].status = 401 /\ Len(responses[r]) = 1
        /\ pc[q] = "done" /\ TypeIs(q, 2) /\ verified[q] /\ Len(responses[q]) = 1

\* C3: an accepted application command is answered 200 {type:5} whatever the
\* state of its publish task: while the handler is about to respond the
\* response can always be given, and it is the deferred response.
C3_ResponseWhateverTheTask ==
    \A r \in Reqs :
        /\ pc[r] = "respond" => ENABLED ApplicationCommandRespond(r)
        /\ (pc[r] = "done" /\ verified[r] /\ TypeIs(r, 2))
              => responses[r] = <<Answer(200, "type", JInt(5))>>

\* the publish attempt of r has begun: publishToPubSub has run
PublishBegun(r) == task[r].state \in {"sending", "ended", "threw"}

\* C4 (as stated): the response of an application command is written before
\* the publish attempt for that request begins.
C4_RespondBeforePublish ==
    \A r \in Reqs : PublishBegun(r) => Len(responses[r]) = 1

\* C4 (amended): the publish thread is spawned before the response is handed
\* to the callback; whenever the deferred response has been given, the
\* thread of that request exists.
C4_SpawnBeforeRespond ==
    \A r \in Reqs :
        (responses[r] # <<>> /\ responses[r][1] = DeferredResponse)
            => task[r].state # "none"

\* the publish attempt of a request is under way and no response is written
C4_Witness ==
    \E r \in Reqs :
        /\ task[r].state = "sending" /\ Len(task[r].sent) = 1
        /\ pc[r] = "respond" /\ responses[r] = <<>>

\* the allow-list of section 3, as a set
AllowList == {"type", "id", "application_id", "data", "guild_id", "channel_id",
              "member", "user", "locale", "guild_locale"}

\* an object restricted to a set of names
Restrict(object, names) ==
    JObj([f \in (DOMAIN object.val) \cap names |-> object.val[f]])

\* the Json::Value a message carries in its data
Payload(message) == message.data[2][2]

\* C5: every message handed to the sink carries the redaction of the
\* envelope its task was given: no token member, no member outside the ten
\* allow-listed names, and every allow-listed member of the envelope as is.
C5_SinkGetsRedaction ==
    \A r \in Reqs : \A i \in 1..Len(task[r].sent) :
        LET payload == Payload(task[r].sent[i])
        IN /\ payload.kind = "object"
           /\ "token" \notin DOMAIN payload.val
           /\ DOMAIN payload.val \subseteq AllowList
           /\ payload = Restrict(task[r].interaction, AllowList)

\* a message was handed to the sink for an envelope with a token member and
\* an unlisted member
C5_Witness ==
    \E r \in Reqs :
        /\ Len(task[r].sent) = 1
        /\ {"token", "extra", "id", "data"} \subseteq DOMAIN task[r].interaction.val
        /\ "id" \in DOMAIN Payload(task[r].sent[1]).val

\* C6: the output of sanitizeInteraction is the input restricted to the
\* allow-list; it is the input itself when all members of the input are
\* allow-listed, and sanitizing the output again changes nothing.
C6_RedactionIsRestriction ==
    \A r \in Reqs :
        task[r].state # "none" =>
            LET input == task[r].interaction
                output == sanitizeInteraction(input)
            IN /\ output = Restrict(input, AllowList)
               /\ (DOMAIN input.val \subseteq AllowList => output = input)
               /\ sanitizeInteraction(output) = output

\* a task was given an envelope with all ten allow-listed members and no other
C6_Witness ==
    \E r \in Reqs :
        /\ task[r].state # "none"
        /\ DOMAIN task[r].interaction.val = AllowList

ConfigComplete ==
    g_pubsub_topic # <<>> /\ g_project_id # <<>> /\ g_pubsub_emulator_host # <<>>

\* the publish thread of r has run to its end
TaskOver(r) == task[r].state \in {"ended", "threw"}

\* C7: every accepted type 2 request has its publish task, and with a
\* complete sink configuration the task that is over has made one send, of
\* the redaction of that request's envelope.
C7_OneTaskOneSend ==
    \A r \in Reqs :
        /\ (pc[r] # "idle" /\ verified[r] /\ TypeIs(r, 2)) => task[r].state # "none"
        /\ (TaskOver(r) /\ ConfigComplete) =>
              /\ Len(task[r].sent) = 1
              /\ Payload(task[r].sent[1]) = Restrict(RequestEnvelope(r), AllowList)

\* C8: a publish task, and a send to the sink, exist only for a request that
\* passed verification, parsed as an object and has the integer type 2.
C8_PublishOnlyForCommands ==
    \A r \in Reqs :
        (task[r].state # "none" \/ task[r].sent # <<>>)
            => (verified[r] /\ TypeIs(r, 2))

\* a Ping and a rejected request are done without a task, next to a command
\* whose task is publishing
C8_Witness ==
    \E r, q \in Reqs :
        /\ pc[r] = "done" /\ task[r] = NoTask
        /\ \/ verified[r] /\ TypeIs(r, 1)
           \/ ~verified[r] /\ TypeIs(r, 2)
        /\ task[q].state = "sending"

\* the thread of r has logged a failed send
LoggedFailure(r) ==
    task[r].log \in {"Pub/Sub publish failed: HTTP",
                     "Pub/Sub publish failed: connection error"}

\* C9: a publish task makes at most one send; after a failure it has ended
\* with that one send and nothing sent again.
C9_AtMostOneSend ==
    \A r \in Reqs :
        /\ Len(task[r].sent) <= 1
        /\ LoggedFailure(r) => (task[r].state = "ended" /\ Len(task[r].sent) = 1)

\* a task has ended after a failed send
C9_Witness ==
    \E r \in Reqs :
        /\ task[r].state = "ended"
        /\ task[r].log = "Pub/Sub publish failed: connection error"
        /\ Len(task[r].sent) = 1

\* C10: no failure inside a publish task ends the process.
C10_NoProcessFailure == proc # "aborted"

(***************************************************************************)
(* validateSignature on its own: handleInteraction is called, in slot 1,   *)
(* with requests over a range of timestamp headers and signature headers,  *)
(* the key global being loaded or as it is declared (empty).               *)
(***************************************************************************)
RECURSIVE DecOf(_)
DecOf(n) ==
    IF n < 10 THEN <<DecDigits[n + 1]>>
    ELSE Append(DecOf(n \div 10), DecDigits[(n % 10) + 1])

\* the decimal text of an integer, as a client writes it in the header
ToDec(n) == IF n < 0 THEN <<"-">> \o DecOf(-n) ELSE DecOf(n)

VerifyTimestamps ==
    UNION {{ToDec(s - FreshnessWindow - 1), ToDec(s - FreshnessWindow),
            ToDec(s - 2), ToDec(s), ToDec(s + 1)} : s \in NowValues}
    \cup {ToDec(INT64_MAX), ToDec(INT64_MAX + 1), ToDec(INT64_MIN), ToDec(-1)}
    \cup {<<>>, <<"x">>, FreshTimestamp \o <<"x">>, <<" ">> \o FreshTimestamp}

VerifyBodies == {NotJsonBody, PingBody}

\* a header without its last two characters
AllButLastPair(hex) == SubSeq(hex, 1, Len(hex) - 2)

\* the signature headers sent with timestamp ts and body b: the platform's
\* signature of ts + b in plain hex, none, signatures of something else,
\* signatures of the wrong length, and other spellings of the signature
VerifyHeaders(ts, b) ==
    LET sig == Sign(ts \o b.bytes)
        hex == ToHex(sig)
        last == hex[Len(hex)]
    IN {hex, <<>>}
       \cup {ToHex(Sign(ts \o b2.bytes)) : b2 \in VerifyBodies \ {b}}
       \cup {ToHex(Sign(t2 \o b.bytes)) : t2 \in {FreshTimestamp, StaleTimestamp} \ {ts}}
       \cup {ToHex([sig EXCEPT ![1] = (@ + 1) % 256])}
       \cup {AllButLastPair(hex), hex \o <<"0", "0">>}
       \cup {<<"g">> \o Tail(hex)}
       \cup {AllButLastPair(hex) \o <<last>>,
             AllButLastPair(hex) \o <<last, "g">>,
             AllButLastPair(hex) \o <<" ", last>>}

VerifyRequests ==
    UNION {{Request(h, ts, b) : h \in VerifyHeaders(ts, b)} :
              ts \in VerifyTimestamps, b \in VerifyBodies}

InitVerify ==
    /\ env = Env(Set(PlatformKeyHex), Unset, Unset, Unset)
    /\ proc = "running"
    /\ g_public_key \in {PlatformPublicKey, <<>>}
    /\ g_pubsub_topic = <<>>
    /\ g_project_id = <<>>
    /\ g_pubsub_emulator_host = <<>>
    /\ nreq = 0
    /\ req = [r \in Reqs |-> NoRequest]
    /\ pc = [r \in Reqs |-> "idle"]
    /\ verified = [r \in Reqs |-> FALSE]
    /\ responses = [r \in Reqs |-> <<>>]
    /\ task = [r \in Reqs |-> NoTask]
    /\ time_t_now = [r \in Reqs |-> 0]
    /\ gmtime_tm = 0

Verify == Receive(1, VerifyRequests)

NextVerify == Verify

SpecVerify == InitVerify /\ [][NextVerify]_vars

\* handler 1 has been called
Handled == nreq >= 1

\* the timestamp header of request 1, parsed
ParsedTimestamp == stoll(req[1].timestamp)

\* request 1 carries the platform's signature of its timestamp and body,
\* in plain hex
GenuinelySigned ==
    req[1].signature = ToHex(Sign(req[1].timestamp \o req[1].body.bytes))

\* the timestamp of request 1 is more than the window in the past
TooOld ==
    /\ ParsedTimestamp.ok
    /\ \A seconds \in NowValues : seconds - ParsedTimestamp.value > FreshnessWindow

\* C11: a request whose timestamp is more than 5 seconds in the past is
\* rejected, whatever its signature, for every timestamp the parse accepts.
C11_StaleRejected == (Handled /\ TooOld) => ~verified[1]

\* hex is an even number of hexadecimal digits
WellFormedHex(hex) ==
    /\ Len(hex) % 2 = 0
    /\ \A i \in 1..Len(hex) : hex[i] \in DOMAIN HexValue

\* C12: a signature header with a character that is not a hexadecimal
\* digit, of odd length, or not of 64 bytes, is rejected.
C12_MalformedSignatureRejected ==
    (Handled /\ (~WellFormedHex(req[1].signature)
                 \/ Len(req[1].signature) # 2 * crypto_sign_BYTES))
        => ~verified[1]

\* text is a decimal integer and nothing else
EntirelyDecimal(text) ==
    LET digits == IF text # <<>> /\ Head(text) = "-" THEN Tail(text) ELSE text
    IN /\ digits # <<>>
       /\ \A i \in 1..Len(digits) : DigitVal(digits[i], 10) >= 0

\* C13: a timestamp header that is not entirely a decimal integer is
\* rejected.
C13_MalformedTimestampRejected ==
    (Handled /\ ~EntirelyDecimal(req[1].timestamp)) => ~verified[1]

KeyLoaded == g_public_key = PlatformPublicKey

\* request 1 carries 64 signature bytes in plain hex that are not the
\* platform's signature of its timestamp and body: the body, the timestamp
\* or the signature was altered after signing
Tampered ==
    /\ WellFormedHex(req[1].signature)
    /\ Len(req[1].signature) = 2 * crypto_sign_BYTES
    /\ ~GenuinelySigned

\* the timestamp of request 1 is a decimal integer within the window
FreshDecimal ==
    /\ EntirelyDecimal(req[1].timestamp)
    /\ ParsedTimestamp.ok
    /\ \A seconds \in NowValues : seconds - ParsedTimestamp.value <= FreshnessWindow

C16_EmptyInputRejected ==
    (Handled /\ (req[1].signature = <<>> \/ req[1].timestamp = <<>>
                 \/ g_public_key = <<>>))
        => /\ ~verified[1]
           /\ responses[1] = <<errorResponse(401, "invalid signature")>>

\* a signed request that is not JSON was answered 401, the key being empty
C16_Witness ==
    /\ Handled
    /\ g_public_key = <<>>
    /\ GenuinelySigned
    /\ FreshDecimal
    /\ ~req[1].body.ok
    /\ responses[1] = <<errorResponse(401, "invalid signature")>>

(***************************************************************************)
(* Startup on its own: main runs under a range of DISCORD_PUBLIC_KEY       *)
(* values.                                                                 *)
(***************************************************************************)
\* the state before main, the environment being one of envs
Boot(envs) ==
    /\ env \in envs
    /\ proc = "starting"
    /\ g_public_key = <<>>
    /\ g_pubsub_topic = <<>>
    /\ g_project_id = <<>>
    /\ g_pubsub_emulator_host = <<>>
    /\ nreq = 0
    /\ req = [r \in Reqs |-> NoRequest]
    /\ pc = [r \in Reqs |-> "idle"]
    /\ verified = [r \in Reqs |-> FALSE]
    /\ responses = [r \in Reqs |-> <<>>]
    /\ task = [r \in Reqs |-> NoTask]
    /\ time_t_now = [r \in Reqs |-> 0]
    /\ gmtime_tm = 0

\* keys of every length up to a little over 64 characters, and the
\* platform's key with a character changed or dropped
StartupKeys ==
    {[i \in 1..n |-> "a"] : n \in 0..(2 * crypto_sign_PUBLICKEYBYTES + 4)}
    \cup {PlatformKeyHex,
          <<"g">> \o Tail(PlatformKeyHex),
          AllButLastPair(PlatformKeyHex) \o <<"a", "g">>,
          AllButLastPair(PlatformKeyHex) \o <<" ", "a">>,
          AllButLastPair(PlatformKeyHex) \o <<"g", "a">>,
          AllButLastPair(PlatformKeyHex) \o <<"-", "1">>}

StartupEnvs ==
    {Env(key, Set(<<"p">>), Set(<<"t">>), host) :
        key \in {Unset} \cup {Set(k) : k \in StartupKeys},
        host \in {Unset, Set(<<"h", ":", "8", "5">>)}}

InitStartup == Boot(StartupEnvs)

NextStartup == main

SpecStartup == InitStartup /\ [][NextStartup]_vars

\* C17: the process does not start unless DISCORD_PUBLIC_KEY is present and
\* is 64 hexadecimal digits, the hex of 32 bytes.
C17_RefusesBadKey ==
    proc = "running" =>
        /\ env.DISCORD_PUBLIC_KEY.set
        /\ WellFormedHex(env.DISCORD_PUBLIC_KEY.value)
        /\ Len(env.DISCORD_PUBLIC_KEY.value) = 2 * crypto_sign_PUBLICKEYBYTES

(***************************************************************************)
(* The sink settings: one request is handled under environments with the   *)
(* topic, the project or the emulator host unset or empty.                 *)
(***************************************************************************)
SinkSettings == {Unset, Set(<<>>)}

SinkEnvs ==
    {Env(Set(PlatformKeyHex), Set(<<"p">>), Set(<<"t">>), Set(<<"h", ":", "8", "5">>))}
    \cup {Env(Set(PlatformKeyHex), v, Set(<<"t">>), Set(<<"h", ":", "8", "5">>)) : v \in SinkSettings}
    \cup {Env(Set(PlatformKeyHex), Set(<<"p">>), v, Set(<<"h", ":", "8", "5">>)) : v \in SinkSettings}
    \cup {Env(Set(PlatformKeyHex), Set(<<"p">>), Set(<<"t">>), v) : v \in SinkSettings}
    \cup {Env(Set(PlatformKeyHex), Unset, Unset, Unset)}

InitSink == Boot(SinkEnvs)

NextSink ==
    \/ main
    \/ HandleInteraction(1)
    \/ ApplicationCommandRespond(1)
    \/ PublishBegin(1)
    \/ PublishComplete(1)

SpecSink == InitSink /\ [][NextSink]_vars

\* C18: with the topic, the project or the emulator host empty the publish
\* task returns without a message and without a send, and the request is
\* answered 200 {"type": 5} all the same.
C18_IncompleteSinkIsNoop ==
    \A r \in Reqs :
        (proc # "starting" /\ ~ConfigComplete) =>
            /\ task[r].state \in {"none", "spawned", "ended"}
            /\ task[r].sent = <<>>
            /\ task[r].log = ""
            /\ (task[r].state # "none" /\ pc[r] = "done")
                   => responses[r] = <<DeferredResponse>>

\* a command whose publish would throw was answered 200 {"type": 5} and its
\* task ended without a send, the emulator host being empty
C18_Witness ==
    /\ proc = "running"
    /\ g_pubsub_emulator_host = <<>>
    /\ g_pubsub_topic # <<>>
    /\ g_project_id # <<>>
    /\ task[1].state = "ended"
    /\ task[1].sent = <<>>
    /\ AttributesThrow(sanitizeInteraction(task[1].interaction))
    /\ responses[1] = <<DeferredResponse>>

(***************************************************************************)
(* The publish threads of two requests side by side.  std::gmtime fills a  *)
(* struct tm of static storage and returns its address; std::put_time      *)
(* reads it when the stream is written.  Between the two, another thread   *)
(* can run.                                                                *)
(***************************************************************************)
\* what the system clock reads when a thread asks
ClockValues == {100, 101}

\* commands: a bare one, a full one, and one whose attributes throw
ClockBodies == {Bodies[i] : i \in {11, 12, 13}}

ClockRequests == {SignedRequest(FreshTimestamp, b) : b \in ClockBodies}

ClockEnvs ==
    {Env(Set(PlatformKeyHex), Set(<<"p">>), Set(<<"t">>), Set(<<"h", ":", "8", "5">>)),
     Env(Set(PlatformKeyHex), Set(<<"p">>), Set(<<"t">>), Set(<<"h", ":", "x">>))}

InitClock == Boot(ClockEnvs)

ReceiveCommand(r) == Receive(r, ClockRequests)

\* lines 167-208, up to the return of std::gmtime(&time_t_now)
PublishGmtime(r) ==
    /\ proc = "running"
    /\ task[r].state = "spawned"
    /\ \E t \in ClockValues :
          IF g_pubsub_topic = <<>> \/ g_project_id = <<>> \/ g_pubsub_emulator_host = <<>>
          THEN /\ task' = [task EXCEPT ![r].state = "ended"]
               /\ UNCHANGED <<proc, clock>>
          ELSE IF ~ReachesGmtime(task[r].interaction)
          THEN /\ task' = [task EXCEPT ![r].state = "threw"]
               /\ proc' = "aborted"
               /\ UNCHANGED clock
          ELSE /\ task' = [task EXCEPT ![r].state = "formatting"]
               /\ time_t_now' = [time_t_now EXCEPT ![r] = t]
               /\ gmtime_tm' = t
               /\ UNCHANGED proc
    /\ UNCHANGED <<env, config, nreq, req, pc, verified, responses>>

\* lines 208-237: the stream is written from the struct tm, the request is
\* built and handed to sendRequest
PublishFormat(r) ==
    /\ proc = "running"
    /\ task[r].state = "formatting"
    /\ LET p == publishToPubSub(task[r].interaction, gmtime_tm)
       IN IF p.kind = "throw"
          THEN /\ task' = [task EXCEPT ![r].state = "threw"]
               /\ proc' = "aborted"
          ELSE /\ task' = [task EXCEPT ![r].state = "sending",
                                       ![r].sent = Append(@, p.request)]
               /\ UNCHANGED proc
    /\ UNCHANGED <<env, config, nreq, req, pc, verified, responses, clock>>

NextClock ==
    \/ main
    \/ \E r \in Reqs : ReceiveCommand(r)
    \/ \E r \in Reqs : ApplicationCommandRespond(r)
    \/ \E r \in Reqs : PublishGmtime(r)
    \/ \E r \in Reqs : PublishFormat(r)
    \/ \E r \in Reqs : PublishComplete(r)

SpecClock == InitClock /\ [][NextClock]_vars

\* C19: the configuration is written at startup only, and no publish task
\* reads or overwrites what belongs to another: the timestamp attribute of
\* a task's message is the task's own clock reading.
C19_TasksShareNothing ==
    /\ proc = "running" =>
          /\ g_public_key = hexToBytes(env.DISCORD_PUBLIC_KEY.value).bytes
          /\ g_pubsub_topic = env.PUBSUB_TOPIC.value
          /\ g_project_id = env.GOOGLE_CLOUD_PROJECT.value
          /\ g_pubsub_emulator_host = env.PUBSUB_EMULATOR_HOST.value
    /\ \A r \in Reqs :
          task[r].sent # <<>> =>
              task[r].sent[1].attributes["timestamp"] = FormatTime(time_t_now[r])

(***************************************************************************)
(* Fairness: a thread that can run is scheduled, and sendRequest(req, 5.0) *)
(* returns, with a response or with its timeout.                           *)
(***************************************************************************)
NextTasks ==
    \/ main
    \/ \E r \in Reqs : ReceiveCommand(r)
    \/ \E r \in Reqs : ApplicationCommandRespond(r)
    \/ \E r \in Reqs : PublishBegin(r)
    \/ \E r \in Reqs : PublishComplete(r)

FairPublish ==
    \A r \in Reqs :
        /\ WF_vars(PublishBegin(r))
        /\ WF_vars(PublishComplete(r))

SpecTasksFair == InitClock /\ [][NextTasks]_vars /\ FairPublish

\* the publish thread of r exists and has not returned
TaskRunning(r) == task[r].state \notin {"none", "ended", "threw"}

\* C20: every spawned publish task terminates: it returns, or an exception
\* ends it and the process with it; and once its send has returned, with a
\* response, a failure or the timeout, it does nothing more.
C20_TasksTerminate ==
    /\ \A r \in Reqs : TaskRunning(r) ~> (~TaskRunning(r) \/ proc = "aborted")
    /\ [][\A r \in Reqs : task[r].state = "ended" => task'[r] = task[r]]_vars

\* both tasks were spawned and have returned, one of them after a send
\* that failed or timed out
C20_Witness ==
    /\ \A r \in 1..2 : task[r].state = "ended" /\ Len(task[r].sent) = 1
    /\ task[1].log = "Pub/Sub publish failed: connection error"

====
